---- MODULE Spec2Model ----
(***************************************************************************)
(* Model of packages/compiler/src/render3/view/compiler.ts: the render3    *)
(* definition compiler (compileDirectiveFromMetadata,                      *)
(* compileComponentFromMetadata) and the host-binding syntax parser        *)
(* (parseHostBindings).                                                    *)
(*                                                                         *)
(* Strings whose characters the code inspects (host keys, binding names)   *)
(* are sequences of one-character strings.  Strings the code only passes   *)
(* along are TLA+ strings.                                                 *)
(***************************************************************************)
EXTENDS Integers, Sequences, FiniteSets, TLC

VARIABLES call, runs, host, parsed, prevParsed, meta, metaIn, def, type,
          outputCtx, directive, raised

vars == <<call, runs, host, parsed, prevParsed, meta, metaIn, def, type,
          outputCtx, directive, raised>>

(***************************************************************************)
(* Bounds of the model.                                                    *)
(***************************************************************************)
MaxKeyLen == 3
MaxHostKeys == 2
MaxRuns == 2
MaxProps == 2
MaxSlots == 1
MaxListeners == 1
MaxQueries == 2
MaxStyles == 2
MaxTailLen == 4
MaxSelectorLen == 3
MaxSelectors == 2

(***************************************************************************)
(* Characters and JavaScript string primitives.                            *)
(***************************************************************************)
UpperLetters ==
  <<"A","B","C","D","E","F","G","H","I","J","K","L","M",
    "N","O","P","Q","R","S","T","U","V","W","X","Y","Z">>

LowerLetters ==
  <<"a","b","c","d","e","f","g","h","i","j","k","l","m",
    "n","o","p","q","r","s","t","u","v","w","x","y","z">>

Digits == {"0","1","2","3","4","5","6","7","8","9"}

Range(s) == {s[i] : i \in DOMAIN s}

\* String.prototype.toLowerCase, one character
LowerChar(c) ==
  IF \E i \in DOMAIN UpperLetters : UpperLetters[i] = c
    THEN LowerLetters[CHOOSE i \in DOMAIN UpperLetters : UpperLetters[i] = c]
    ELSE c

toLowerCase(s) == [i \in 1..Len(s) |-> LowerChar(s[i])]

\* String.prototype.substring(from, to), 0-based from, exclusive to: both are
\* clamped to 0..length and swapped when from > to
Clamp(n, len) == IF n < 0 THEN 0 ELSE IF n > len THEN len ELSE n

substring(s, from, to) ==
  LET a == Clamp(from, Len(s))
      b == Clamp(to, Len(s))
      lo == IF a <= b THEN a ELSE b
      hi == IF a <= b THEN b ELSE a
  IN  IF lo = hi THEN <<>> ELSE SubSeq(s, lo + 1, hi)

\* String.prototype.indexOf / lastIndexOf of one character, 0-based, -1 if absent
indexOf(s, c) ==
  IF \E i \in 1..Len(s) : s[i] = c
    THEN (CHOOSE i \in 1..Len(s) : s[i] = c /\ \A j \in 1..(i-1) : s[j] # c) - 1
    ELSE -1

lastIndexOf(s, c) ==
  IF \E i \in 1..Len(s) : s[i] = c
    THEN (CHOOSE i \in 1..Len(s) : s[i] = c /\ \A j \in (i+1)..Len(s) : s[j] # c) - 1
    ELSE -1

\* the regular expression class [-\w]
IsWordOrDash(c) ==
  c \in Range(UpperLetters) \cup Range(LowerLetters) \cup Digits \cup {"_", "-"}

(***************************************************************************)
(* parseHostBindings and HOST_REG_EXP.                                     *)
(***************************************************************************)
NoMatch == [matched |-> FALSE, group |-> 0, text |-> <<>>]

\* The first alternative of HOST_REG_EXP, ^(?:\[([^\]]+)\]|\(([^\)]+)\)): it is
\* anchored at the start of the key only.  [^c]+ is greedy and cannot give a
\* closing character back, so the group ends at the first closing character.
MatchBracketed(key, open, close, group) ==
  IF Len(key) >= 3 /\ key[1] = open /\ key[2] # close
       /\ \E j \in 3..Len(key) : key[j] = close
    THEN LET j == CHOOSE j \in 3..Len(key) :
                    key[j] = close /\ \A k \in 2..(j-1) : key[k] # close
         IN  [matched |-> TRUE, group |-> group, text |-> SubSeq(key, 2, j - 1)]
    ELSE NoMatch

\* The second alternative of HOST_REG_EXP, (\@[-\w]+)$: it is anchored at the
\* end of the key only, so it is tried at every start position.
MatchAnimation(key) ==
  LET starts == {p \in 1..(Len(key) - 1) :
                   key[p] = "@" /\ \A k \in (p+1)..Len(key) : IsWordOrDash(key[k])}
  IN  IF starts # {}
        THEN LET p == CHOOSE p \in starts : \A q \in starts : p <= q
             IN  [matched |-> TRUE, group |-> 3, text |-> SubSeq(key, p, Len(key))]
        ELSE NoMatch

\* key.match(HOST_REG_EXP): the leftmost match, alternatives tried in order
HOST_REG_EXP(key) ==
  LET b == MatchBracketed(key, "[", "]", 1)
      e == MatchBracketed(key, "(", ")", 2)
  IN  IF b.matched THEN b
      ELSE IF e.matched THEN e
      ELSE MatchAnimation(key)

\* obj[key] = value on a JavaScript object: an existing key keeps its place
Put(obj, key, value) ==
  IF \E i \in DOMAIN obj : obj[i].key = key
    THEN [i \in DOMAIN obj |->
            IF obj[i].key = key THEN [key |-> key, value |-> value] ELSE obj[i]]
    ELSE Append(obj, [key |-> key, value |-> value])

EmptyParsed ==
  [attributes |-> <<>>, listeners |-> <<>>, properties |-> <<>>, animations |-> <<>>]

\* the bucket one key is written to, and the name it is written under
classify(key) ==
  LET m == HOST_REG_EXP(key)
  IN  IF ~m.matched THEN [bucket |-> "attributes", name |-> key]
      ELSE IF m.group = 1 THEN [bucket |-> "properties", name |-> m.text]
      ELSE IF m.group = 2 THEN [bucket |-> "listeners", name |-> m.text]
      ELSE [bucket |-> "animations", name |-> m.text]

\* a forEach callback whose branches are not exclusive: the key is always
\* written to attributes, and to its matched mapping as well
parseHostKeyNoElse(acc, entry) ==
  LET c == classify(entry.key)
      a == [acc EXCEPT !.attributes = Put(acc.attributes, entry.key, entry.value)]
  IN  IF c.bucket = "attributes" THEN a
      ELSE [a EXCEPT ![c.bucket] = Put(a[c.bucket], c.name, entry.value)]

\* the body of the forEach callback of parseHostBindings
parseHostKey(acc, entry) ==
  LET c == classify(entry.key)
  IN  [acc EXCEPT ![c.bucket] = Put(acc[c.bucket], c.name, entry.value)]

RECURSIVE parseHostLoop(_, _, _)
parseHostLoop(h, i, acc) ==
  IF i > Len(h) THEN acc
  ELSE parseHostLoop(h, i + 1, parseHostKey(acc, h[i]))

parseHostBindings(h) == parseHostLoop(h, 1, EmptyParsed)

(***************************************************************************)
(* Output expressions.  Every value stored in a definition map is a record *)
(* with a kind field; a null expression is the record Null.                *)
(***************************************************************************)
Null == [kind |-> "null"]

IsNull(v) == v.kind = "null"

\* DefinitionMap.set: the field is recorded, in call order, unless the value is null
DefinitionMap_set(map, key, value) ==
  IF IsNull(value) THEN map ELSE Append(map, [key |-> key, value |-> value])

Has(map, key) == \E i \in DOMAIN map : map[i].key = key

Get(map, key) == map[CHOOSE i \in DOMAIN map : map[i].key = key].value

\* conditionallyCreateMapObjectLiteral: a literal map of the entries, or null when
\* the map has no own property
conditionallyCreateMapObjectLiteral(keys, keepDeclared) ==
  IF Len(keys) > 0
    THEN [kind |-> "literalMap", entries |-> keys, keepDeclared |-> keepDeclared]
    ELSE Null

STYLE == <<"s","t","y","l","e">>
CLASS == <<"c","l","a","s","s">>

\* the styling prefix without the lower-casing
getStylingPrefixCaseSensitive(propName) == substring(propName, 0, 5)

getStylingPrefix(propName) == toLowerCase(substring(propName, 0, 5))

IsStyling(name) == getStylingPrefix(name) \in {STYLE, CLASS}

\* parseNamedProperty without the unit: everything after the first dot is the
\* property
parseNamedPropertyNoUnit(name) ==
  LET index == indexOf(name, ".")
  IN  IF index > 0
        THEN [propertyName |-> substring(name, index + 1, Len(name)), unit |-> <<>>]
        ELSE [propertyName |-> <<>>, unit |-> <<>>]

\* parseNamedProperty: the segment between the first and the last dot is the
\* property, the segment after the last dot the unit
parseNamedProperty(name) ==
  LET index == indexOf(name, ".")
      unitIndex == lastIndexOf(name, ".")
  IN  IF index > 0
        THEN IF unitIndex # index
               THEN [propertyName |-> substring(name, index + 1, unitIndex),
                     unit |-> substring(name, unitIndex + 1, Len(name))]
               ELSE [propertyName |-> substring(name, index + 1, Len(name)),
                     unit |-> <<>>]
        ELSE [propertyName |-> <<>>, unit |-> <<>>]

ATTR == <<"a","t","t","r",".">>

\* bindingName.match(ATTR_REGEX), ATTR_REGEX = /attr\.([^\]]+)/: unanchored, the
\* leftmost "attr." followed by at least one character other than "]"
ATTR_REGEX(name) ==
  LET starts == {i \in 1..(Len(name) - 5) :
                   SubSeq(name, i, i + 4) = ATTR /\ name[i + 5] # "]"}
  IN  IF starts # {}
        THEN LET i == CHOOSE i \in starts : \A q \in starts : i <= q
                 stop == {j \in (i + 5)..Len(name) : name[j] = "]"}
                 last == IF stop = {} THEN Len(name)
                         ELSE (CHOOSE j \in stop : \A q \in stop : j <= q) - 1
             IN  [matched |-> TRUE, group |-> 1, text |-> SubSeq(name, i + 5, last)]
        ELSE NoMatch

getBindingNameAndInstruction(bindingName) ==
  LET attrMatches == ATTR_REGEX(bindingName)
  IN  IF attrMatches.matched
        THEN [bindingName |-> attrMatches.text, instruction |-> "elementAttribute",
              extraParams |-> <<>>]
        ELSE [bindingName |-> bindingName, instruction |-> "elementProperty",
              extraParams |-> <<"null", "true">>]

(***************************************************************************)
(* The Styling Builder (./styling): static style/class attribute values    *)
(* and dynamic style/class bindings in registration order.                 *)
(***************************************************************************)
NewStylingBuilder ==
  [hasBindingsOrInitialValues |-> FALSE, styleAttr |-> FALSE, classAttr |-> FALSE,
   inputs |-> <<>>]

registerStyleAttr(sb, value) ==
  [sb EXCEPT !.hasBindingsOrInitialValues = TRUE, !.styleAttr = TRUE]

registerClassAttr(sb, value) ==
  [sb EXCEPT !.hasBindingsOrInitialValues = TRUE, !.classAttr = TRUE]

registerStyleInput(sb, propertyName, binding, unit) ==
  [sb EXCEPT !.hasBindingsOrInitialValues = TRUE,
             !.inputs = Append(@, [instr |-> "elementStyleProp", name |-> propertyName,
                                   unit |-> unit, binding |-> binding])]

registerClassInput(sb, className, binding) ==
  [sb EXCEPT !.hasBindingsOrInitialValues = TRUE,
             !.inputs = Append(@, [instr |-> "elementClassProp", name |-> className,
                                   unit |-> <<>>, binding |-> binding])]

\* one create-level instruction when there is styling work, else null
buildCreateLevelInstruction(sb) ==
  IF sb.hasBindingsOrInitialValues
    THEN [kind |-> "instruction", reference |-> "elementStyling"]
    ELSE Null

\* one update-level instruction per dynamic binding, in registration order
buildUpdateLevelInstructions(sb) == sb.inputs

(***************************************************************************)
(* Statements of the generated functions.                                  *)
(***************************************************************************)
CreateStmt(instr, name, count) == [instr |-> instr, name |-> name, count |-> count]

UpdateStmt(instr, bindingName, extraParams, unit, declared, offset, slots) ==
  [instr |-> instr, bindingName |-> bindingName, extraParams |-> extraParams,
   unit |-> unit, declared |-> declared, offset |-> offset, slots |-> slots]

\* renderFlagCheckIfStmt(flag, statements)
renderFlagCheckIfStmt(flag, statements) == [flag |-> flag, stmts |-> statements]

Fn(name, statements) == [kind |-> "fn", name |-> name, statements |-> statements]

(***************************************************************************)
(* Queries.                                                                *)
(***************************************************************************)
\* idx is <<>> for null and <<i>> for the number i
createQueryDefinition(query, idx) ==
  [instr |-> "query", idx |-> idx, predicate |-> query.predicate,
   descendants |-> query.descendants, read |-> query.read]

createContentQueriesFunction(m) ==
  IF Len(m.queries) > 0
    THEN Fn("ContentQueries",
            [i \in 1..Len(m.queries) |->
               [instr |-> "registerContentQuery",
                query |-> createQueryDefinition(m.queries[i], <<>>)]])
    ELSE Null

\* the refresh function with every query list loaded at queryStartIndex
createContentQueriesRefreshFunctionSameIndex(m) ==
  IF Len(m.queries) > 0
    THEN Fn("ContentQueriesRefresh",
            <<[instr |-> "declareInstance", loadOffset |-> 0, property |-> "", first |-> FALSE],
              [instr |-> "declareTemporary", loadOffset |-> 0, property |-> "", first |-> FALSE]>>
            \o [i \in 1..Len(m.queries) |->
                  [instr |-> "queryRefresh", loadOffset |-> 0,
                   property |-> m.queries[i].propertyName, first |-> m.queries[i].first]])
    ELSE Null

\* The statement list starts with the instance declaration; the first call of
\* temporary() appends the declaration of the temporary; one refresh statement
\* per query follows.  loadOffset 0 stands for the bare queryStartIndex.
createContentQueriesRefreshFunction(m) ==
  IF Len(m.queries) > 0
    THEN Fn("ContentQueriesRefresh",
            <<[instr |-> "declareInstance", loadOffset |-> 0, property |-> "",
               first |-> FALSE],
              [instr |-> "declareTemporary", loadOffset |-> 0, property |-> "",
               first |-> FALSE]>>
            \o [i \in 1..Len(m.queries) |->
                  [instr |-> "queryRefresh", loadOffset |-> i - 1,
                   property |-> m.queries[i].propertyName,
                   first |-> m.queries[i].first]])
    ELSE Null

\* the view queries function with every query list loaded from slot 0
createViewQueriesFunctionSameSlot(m) ==
  Fn("Query",
     <<renderFlagCheckIfStmt("Create",
          [i \in 1..Len(m.viewQueries) |->
             createQueryDefinition(m.viewQueries[i], <<i - 1>>)]),
       renderFlagCheckIfStmt("Update",
          (IF Len(m.viewQueries) > 0
             THEN <<[instr |-> "declareTemporary", loadOffset |-> 0, property |-> "",
                     first |-> FALSE]>>
             ELSE <<>>)
          \o [i \in 1..Len(m.viewQueries) |->
                [instr |-> "queryRefresh", loadOffset |-> 0,
                 property |-> m.viewQueries[i].propertyName,
                 first |-> m.viewQueries[i].first]])>>)

createViewQueriesFunction(m) ==
  Fn("Query",
     <<renderFlagCheckIfStmt("Create",
          [i \in 1..Len(m.viewQueries) |->
             createQueryDefinition(m.viewQueries[i], <<i - 1>>)]),
       renderFlagCheckIfStmt("Update",
          (IF Len(m.viewQueries) > 0
             THEN <<[instr |-> "declareTemporary", loadOffset |-> 0, property |-> "",
                     first |-> FALSE]>>
             ELSE <<>>)
          \o [i \in 1..Len(m.viewQueries) |->
                [instr |-> "queryRefresh", loadOffset |-> i - 1,
                 property |-> m.viewQueries[i].propertyName,
                 first |-> m.viewQueries[i].first]])>>)

(***************************************************************************)
(* Host bindings.                                                          *)
(***************************************************************************)
\* hostVarsCount of baseDirectiveFields with the filter left out: every bound
\* host property is counted
initialHostVarsCountAll(m) == Len(m.host.properties)

\* hostVarsCount of baseDirectiveFields: the bound host properties whose
\* styling prefix is neither 'style' nor 'class'
initialHostVarsCount(m) ==
  Cardinality({i \in DOMAIN m.host.properties : ~IsStyling(m.host.properties[i].name)})

\* hostVarsCountFn that hands out slots but does not advance the total
hostVarsCountFnStuck(totalHostVarsCount, numSlots) ==
  [originalVarsCount |-> totalHostVarsCount, totalHostVarsCount |-> totalHostVarsCount]

hostVarsCountFn(totalHostVarsCount, numSlots) ==
  [originalVarsCount |-> totalHostVarsCount,
   totalHostVarsCount |-> totalHostVarsCount + numSlots]

\* The value conversion of one binding expression (ValueConverter, ./template):
\* an expression that needs slots asks allocatePureFunctionSlots, which is
\* hostVarsCountFn here; binding.slots is the number it asks for.
convertValue(totalHostVarsCount, binding) ==
  IF binding.slots > 0
    THEN hostVarsCountFn(totalHostVarsCount, binding.slots)
    ELSE [originalVarsCount |-> totalHostVarsCount,
          totalHostVarsCount |-> totalHostVarsCount]

\* bindingParser.createBoundHostProperties: one binding per host property, in
\* the order of the keys; declared is its position in the metadata
createBoundHostProperties(m) ==
  [i \in 1..Len(m.host.properties) |->
     [name |-> m.host.properties[i].name, slots |-> m.host.properties[i].slots,
      declared |-> i]]

\* bindingParser.createDirectiveHostEventAsts and createHostListeners: one
\* listener statement per host listener
createHostListeners(m) ==
  [i \in 1..Len(m.host.listeners) |-> CreateStmt("listener", m.host.listeners[i], 0)]

\* one pass of the loop over the bindings
hostPropertyBinding(st, binding) ==
  LET stylePrefix == getStylingPrefix(binding.name)
  IN  IF stylePrefix = STYLE
        THEN LET np == parseNamedProperty(binding.name)
             IN  [st EXCEPT !.styleBuilder =
                    registerStyleInput(@, np.propertyName, binding, np.unit)]
      ELSE IF stylePrefix = CLASS
        THEN [st EXCEPT !.styleBuilder =
                registerClassInput(@, parseNamedProperty(binding.name).propertyName,
                                   binding)]
      ELSE LET value == convertValue(st.totalHostVarsCount, binding)
               bi == getBindingNameAndInstruction(binding.name)
           IN  [st EXCEPT !.totalHostVarsCount = value.totalHostVarsCount,
                          !.updateStatements =
                             Append(@, UpdateStmt(bi.instruction, bi.bindingName,
                                                  bi.extraParams, <<>>, binding.declared,
                                                  value.originalVarsCount, binding.slots))]

RECURSIVE hostPropertyBindings(_, _, _)
hostPropertyBindings(bindings, i, st) ==
  IF i > Len(bindings) THEN st
  ELSE hostPropertyBindings(bindings, i + 1, hostPropertyBinding(st, bindings[i]))

\* one styling update instruction turned into an update statement
stylingUpdate(st, instruction) ==
  LET value == convertValue(st.totalHostVarsCount, instruction.binding)
  IN  [st EXCEPT !.totalHostVarsCount = value.totalHostVarsCount,
                 !.updateStatements =
                    Append(@, UpdateStmt(instruction.instr, instruction.name, <<>>,
                                         instruction.unit, instruction.binding.declared,
                                         value.originalVarsCount,
                                         instruction.binding.slots))]

RECURSIVE stylingUpdates(_, _, _)
stylingUpdates(instructions, i, st) ==
  IF i > Len(instructions) THEN st
  ELSE stylingUpdates(instructions, i + 1, stylingUpdate(st, instructions[i]))

\* the styling block: the create instruction, then the update instructions
stylingStatements(st) ==
  IF st.styleBuilder.hasBindingsOrInitialValues
    THEN LET createInstruction == buildCreateLevelInstruction(st.styleBuilder)
             withCreate ==
               IF IsNull(createInstruction) THEN st
               ELSE [st EXCEPT !.createStatements =
                        Append(@, CreateStmt(createInstruction.reference, "", 0))]
         IN  stylingUpdates(buildUpdateLevelInstructions(st.styleBuilder), 1, withCreate)
    ELSE st

\* the allocation appended to the create block instead of put in front of it
allocHostVarsPushed(st) ==
  IF st.totalHostVarsCount # 0
    THEN [st EXCEPT !.createStatements =
            Append(@, CreateStmt("allocHostVars", "", st.totalHostVarsCount))]
    ELSE st

\* createStatements.unshift(allocHostVars(totalHostVarsCount)) when the total is
\* nonzero
allocHostVars(st) ==
  IF st.totalHostVarsCount # 0
    THEN [st EXCEPT !.createStatements =
            <<CreateStmt("allocHostVars", "", st.totalHostVarsCount)>> \o @]
    ELSE st

\* the function is built whatever the two blocks hold
hostBindingsResultAlways(st) ==
  Fn("HostBindings",
     <<renderFlagCheckIfStmt("Create", st.createStatements),
       renderFlagCheckIfStmt("Update", st.updateStatements)>>)

\* the function with the update block in front of the create block
hostBindingsResultUpdateFirst(st) ==
  IF Len(st.createStatements) > 0 \/ Len(st.updateStatements) > 0
    THEN Fn("HostBindings",
            (IF Len(st.updateStatements) > 0
               THEN <<renderFlagCheckIfStmt("Update", st.updateStatements)>> ELSE <<>>)
            \o
            (IF Len(st.createStatements) > 0
               THEN <<renderFlagCheckIfStmt("Create", st.createStatements)>> ELSE <<>>))
    ELSE Null

\* the function of the non-empty blocks, or null when both are empty
hostBindingsResult(st) ==
  IF Len(st.createStatements) > 0 \/ Len(st.updateStatements) > 0
    THEN Fn("HostBindings",
            (IF Len(st.createStatements) > 0
               THEN <<renderFlagCheckIfStmt("Create", st.createStatements)>> ELSE <<>>)
            \o
            (IF Len(st.updateStatements) > 0
               THEN <<renderFlagCheckIfStmt("Update", st.updateStatements)>> ELSE <<>>))
    ELSE Null

createHostBindingsFunction(m, styleBuilder, hostVarsCount) ==
  LET st0 == [createStatements |-> createHostListeners(m),
              updateStatements |-> <<>>,
              totalHostVarsCount |-> hostVarsCount,
              styleBuilder |-> styleBuilder]
      st1 == hostPropertyBindings(createBoundHostProperties(m), 1, st0)
      st2 == stylingStatements(st1)
  IN  hostBindingsResult(allocHostVars(st2))

(***************************************************************************)
(* The definition assembler.                                               *)
(***************************************************************************)
\* the loop over the host attributes: style and class go to the styling
\* builder, every other attribute to allOtherAttributes
RECURSIVE hostAttributes(_, _, _)
hostAttributes(attrs, i, acc) ==
  IF i > Len(attrs) THEN acc
  ELSE hostAttributes(attrs, i + 1,
         IF attrs[i].key = "style"
           THEN [acc EXCEPT !.styleBuilder = registerStyleAttr(@, attrs[i].value)]
         ELSE IF attrs[i].key = "class"
           THEN [acc EXCEPT !.styleBuilder = registerClassAttr(@, attrs[i].value)]
         ELSE [acc EXCEPT !.allOtherAttributes = Put(@, attrs[i].key, attrs[i].value)])

createHostAttributesArray(attributes) ==
  IF Len(attributes) > 0
    THEN [kind |-> "literalArr", entries |-> attributes]
    ELSE Null

\* the inputs and outputs fields, both built from meta.inputs
inputsAndOutputsSwapped(definitionMap, m) ==
  DefinitionMap_set(
    DefinitionMap_set(definitionMap, "inputs",
                      conditionallyCreateMapObjectLiteral(m.inputs, TRUE)),
    "outputs", conditionallyCreateMapObjectLiteral(m.inputs, FALSE))

\* the inputs field, then the outputs field
inputsAndOutputs(definitionMap, m) ==
  DefinitionMap_set(
    DefinitionMap_set(definitionMap, "inputs",
                      conditionallyCreateMapObjectLiteral(m.inputs, TRUE)),
    "outputs", conditionallyCreateMapObjectLiteral(m.outputs, FALSE))

baseDirectiveFields(m) ==
  LET a == hostAttributes(m.host.attributes, 1,
             [styleBuilder |-> NewStylingBuilder, allOtherAttributes |-> <<>>])
      d1 == DefinitionMap_set(<<>>, "type", [kind |-> "type"])
      d2 == DefinitionMap_set(d1, "selectors",
              [kind |-> "selectors", selector |-> m.selector])
      d3 == DefinitionMap_set(d2, "factory", [kind |-> "factory"])
      d4 == DefinitionMap_set(d3, "contentQueries", createContentQueriesFunction(m))
      d5 == DefinitionMap_set(d4, "contentQueriesRefresh",
              createContentQueriesRefreshFunction(m))
      d6 == DefinitionMap_set(d5, "attributes",
              createHostAttributesArray(a.allOtherAttributes))
      d7 == DefinitionMap_set(d6, "hostBindings",
              createHostBindingsFunction(m, a.styleBuilder, initialHostVarsCount(m)))
      d9 == inputsAndOutputs(d7, m)
  IN  IF m.exportAs # "null"
        THEN DefinitionMap_set(d9, "exportAs", [kind |-> "literal", text |-> m.exportAs])
        ELSE d9

\* the features list with the on-changes feature pushed before the inheritance
\* feature
featuresListOnChangesFirst(m) ==
  (IF m.providers # "null" \/ m.viewProviders # "null"
     THEN <<[feature |-> "ProvidersFeature",
             args |-> <<IF m.providers # "null" THEN m.providers ELSE "[]">>
                      \o (IF m.viewProviders # "null" THEN <<m.viewProviders>> ELSE <<>>)]>>
     ELSE <<>>)
  \o (IF m.lifecycle.usesOnChanges
        THEN <<[feature |-> "NgOnChangesFeature", args |-> <<>>]>> ELSE <<>>)
  \o (IF m.usesInheritance
        THEN <<[feature |-> "InheritDefinitionFeature", args |-> <<>>]>> ELSE <<>>)

\* the features list with viewProviders pushed only next to real providers
featuresListViewProvidersNeedProviders(m) ==
  (IF m.providers # "null" \/ m.viewProviders # "null"
     THEN <<[feature |-> "ProvidersFeature",
             args |-> <<IF m.providers # "null" THEN m.providers ELSE "[]">>
                      \o (IF m.viewProviders # "null" /\ m.providers # "null"
                            THEN <<m.viewProviders>> ELSE <<>>)]>>
     ELSE <<>>)
  \o (IF m.usesInheritance
        THEN <<[feature |-> "InheritDefinitionFeature", args |-> <<>>]>> ELSE <<>>)
  \o (IF m.lifecycle.usesOnChanges
        THEN <<[feature |-> "NgOnChangesFeature", args |-> <<>>]>> ELSE <<>>)

\* the features list: each entry is [feature, args]
featuresList(m) ==
  (IF m.providers # "null" \/ m.viewProviders # "null"
     THEN <<[feature |-> "ProvidersFeature",
             args |-> <<IF m.providers # "null" THEN m.providers ELSE "[]">>
                      \o (IF m.viewProviders # "null" THEN <<m.viewProviders>> ELSE <<>>)]>>
     ELSE <<>>)
  \o (IF m.usesInheritance
        THEN <<[feature |-> "InheritDefinitionFeature", args |-> <<>>]>> ELSE <<>>)
  \o (IF m.lifecycle.usesOnChanges
        THEN <<[feature |-> "NgOnChangesFeature", args |-> <<>>]>> ELSE <<>>)

addFeatures(definitionMap, m) ==
  LET features == featuresList(m)
  IN  IF Len(features) # 0
        THEN DefinitionMap_set(definitionMap, "features",
               [kind |-> "literalArr", entries |-> features])
        ELSE definitionMap

\* str.replace(/\n/, ''): the first newline only
replaceFirstNewline(str) ==
  IF \E i \in DOMAIN str : str[i] = "\n"
    THEN LET i == CHOOSE i \in DOMAIN str :
                    str[i] = "\n" /\ \A j \in 1..(i - 1) : str[j] # "\n"
         IN  SubSeq(str, 1, i - 1) \o SubSeq(str, i + 1, Len(str))
    ELSE str

\* str.replace(/\n/g, '')
replaceNewlines(str) == SelectSeq(str, LAMBDA c : c # "\n")

\* the type of the definition: the selector without its newlines, exportAs, the
\* inputs, the outputs and the names of the query properties
createTypeForDef(m) ==
  LET selectorForType == replaceNewlines(m.selector)
  IN  [kind |-> "DefType", selector |-> selectorForType,
       exportAs |-> IF m.exportAs # "null" THEN m.exportAs ELSE "NONE_TYPE",
       inputs |-> m.inputs, outputs |-> m.outputs,
       queries |-> [i \in 1..Len(m.queries) |-> m.queries[i].propertyName]]

compileDirectiveFromMetadata(m) ==
  [definitionMap |-> addFeatures(baseDirectiveFields(m), m),
   type |-> createTypeForDef(m), meta |-> m]

\* compileStyles: every style goes through ShadowCss.shimCssText
compileStyles(styles) == [i \in 1..Len(styles) |-> [styles[i] EXCEPT !.shimmed = TRUE]]

\* the component fields from attrs to pipes
componentTemplateFields(definitionMap, m) ==
  LET d1 == IF Len(m.selectorAttrs) # 0
              THEN DefinitionMap_set(definitionMap, "attrs",
                     [kind |-> "literalArr", entries |-> m.selectorAttrs])
              ELSE definitionMap
      d2 == IF Len(m.viewQueries) # 0
              THEN DefinitionMap_set(d1, "viewQuery", createViewQueriesFunction(m))
              ELSE d1
      d3 == DefinitionMap_set(d2, "consts", [kind |-> "literal", text |-> "consts"])
      d4 == DefinitionMap_set(d3, "vars", [kind |-> "literal", text |-> "vars"])
      d5 == DefinitionMap_set(d4, "template", [kind |-> "template"])
      d6 == IF m.template.directivesUsed
              THEN DefinitionMap_set(d5, "directives", [kind |-> "directives"])
              ELSE d5
  IN  IF m.template.pipesUsed
        THEN DefinitionMap_set(d6, "pipes", [kind |-> "pipes"])
        ELSE d6

\* the styles and encapsulation block without the downgrade of Emulated to None
componentStylesNoDowngrade(definitionMap, m) ==
  LET m1 == IF m.encapsulation = "null" THEN [m EXCEPT !.encapsulation = "Emulated"] ELSE m
      d1 == IF Len(m1.styles) # 0
              THEN DefinitionMap_set(definitionMap, "styles",
                     [kind |-> "literalArr",
                      entries |-> IF m1.encapsulation = "Emulated"
                                    THEN compileStyles(m1.styles) ELSE m1.styles])
              ELSE definitionMap
  IN  [definitionMap |->
         IF m1.encapsulation # "Emulated"
           THEN DefinitionMap_set(d1, "encapsulation",
                  [kind |-> "literal", text |-> m1.encapsulation])
           ELSE d1,
       meta |-> m1]

\* the styles and encapsulation block with the shim decided before a null
\* encapsulation is defaulted
componentStylesShimBeforeDefault(definitionMap, m) ==
  LET m1 == IF m.encapsulation = "null" THEN [m EXCEPT !.encapsulation = "Emulated"] ELSE m
      d1 == IF Len(m1.styles) # 0
              THEN DefinitionMap_set(definitionMap, "styles",
                     [kind |-> "literalArr",
                      entries |-> IF m.encapsulation = "Emulated"
                                    THEN compileStyles(m1.styles) ELSE m1.styles])
              ELSE definitionMap
      m2 == IF Len(m1.styles) = 0 /\ m1.encapsulation = "Emulated"
              THEN [m1 EXCEPT !.encapsulation = "None"] ELSE m1
  IN  [definitionMap |->
         IF m2.encapsulation # "Emulated"
           THEN DefinitionMap_set(d1, "encapsulation",
                  [kind |-> "literal", text |-> m2.encapsulation])
           ELSE d1,
       meta |-> m2]

\* the styles and encapsulation block; it assigns to meta.encapsulation
componentStyles(definitionMap, m) ==
  LET m1 == IF m.encapsulation = "null" THEN [m EXCEPT !.encapsulation = "Emulated"] ELSE m
      d1 == IF Len(m1.styles) # 0
              THEN DefinitionMap_set(definitionMap, "styles",
                     [kind |-> "literalArr",
                      entries |-> IF m1.encapsulation = "Emulated"
                                    THEN compileStyles(m1.styles) ELSE m1.styles])
              ELSE definitionMap
      m2 == IF Len(m1.styles) = 0 /\ m1.encapsulation = "Emulated"
              THEN [m1 EXCEPT !.encapsulation = "None"] ELSE m1
  IN  [definitionMap |->
         IF m2.encapsulation # "Emulated"
           THEN DefinitionMap_set(d1, "encapsulation",
                  [kind |-> "literal", text |-> m2.encapsulation])
           ELSE d1,
       meta |-> m2]

\* the data (animation) and changeDetection fields
componentTrailingFields(definitionMap, m) ==
  LET d1 == IF m.animations # "null"
              THEN DefinitionMap_set(definitionMap, "data",
                     [kind |-> "literalMap", entries |-> <<m.animations>>,
                      keepDeclared |-> FALSE])
              ELSE definitionMap
  IN  IF m.changeDetection # "null" /\ m.changeDetection # "Default"
        THEN DefinitionMap_set(d1, "changeDetection",
               [kind |-> "literal", text |-> m.changeDetection])
        ELSE d1

\* the trailing fields and the type, from the definition map and the metadata
\* the styles block left
componentResult(r) ==
  [definitionMap |-> componentTrailingFields(r.definitionMap, r.meta),
   type |-> createTypeForDef(r.meta), meta |-> r.meta]

\* the component definition with the features set after every other field
compileComponentFromMetadataFeaturesLast(m) ==
  LET r == componentStyles(componentTemplateFields(baseDirectiveFields(m), m), m)
  IN  [definitionMap |->
         addFeatures(componentTrailingFields(r.definitionMap, r.meta), r.meta),
       type |-> createTypeForDef(r.meta), meta |-> r.meta]

\* base fields, features, template fields, styles, then the trailing fields
compileComponentFromMetadata(m) ==
  componentResult(
    componentStyles(
      componentTemplateFields(addFeatures(baseDirectiveFields(m), m), m), m))

(***************************************************************************)
(* The legacy adapter: render2 global analysis data as the input.          *)
(***************************************************************************)
\* error(msg) throws; a call that throws returns nothing
error(msg) == [raised |-> TRUE, message |-> msg]

Return(value) == [raised |-> FALSE, value |-> value]

\* JavaScript truthiness of a string or null
Truthy(value) == value # "null" /\ value # ""

\* the predicate without the check for a type among the string selectors
selectorsFromGlobalMetadataUnchecked(selectors) ==
  IF Len(selectors) > 1 \/ (Len(selectors) = 1 /\ Truthy(selectors[1].value))
    THEN Return([kind |-> "constLiteral",
                 strings |-> [i \in DOMAIN selectors |-> selectors[i].value]])
  ELSE IF Len(selectors) = 1 /\ selectors[1].identifier # "null"
    THEN Return([kind |-> "importExpr", reference |-> selectors[1].identifier])
  ELSE error("Unexpected query form")

\* the predicate of a query from the selector tokens of the legacy metadata
selectorsFromGlobalMetadata(selectors) ==
  IF Len(selectors) > 1 \/ (Len(selectors) = 1 /\ Truthy(selectors[1].value))
    THEN LET selectorStrings == [i \in DOMAIN selectors |-> selectors[i].value]
         IN  IF \E i \in DOMAIN selectorStrings : ~Truthy(selectorStrings[i])
               THEN error("Found a type among the string selectors expected")
               ELSE Return([kind |-> "constLiteral", strings |-> selectorStrings])
  ELSE IF Len(selectors) = 1 /\ selectors[1].identifier # "null"
    THEN Return([kind |-> "importExpr", reference |-> selectors[1].identifier])
  ELSE error("Unexpected query form")

\* queries.map(...): the first selector list that throws ends the map
convertedQueries(queries, predicates) ==
  LET failed == {i \in DOMAIN queries : predicates[i].raised}
  IN  IF failed # {}
        THEN error(predicates[CHOOSE i \in failed : \A j \in failed : i <= j].message)
        ELSE Return([i \in DOMAIN queries |->
                       [propertyName |-> queries[i].propertyName,
                        first |-> queries[i].first,
                        predicate |-> predicates[i].value,
                        descendants |-> queries[i].descendants,
                        read |-> IF queries[i].read # "null"
                                   THEN [kind |-> "importExpr", reference |-> queries[i].read]
                                   ELSE "null"]])

queriesFromGlobalMetadata(queries) ==
  convertedQueries(queries, [i \in DOMAIN queries |->
                               selectorsFromGlobalMetadata(queries[i].selectors)])

\* the R3DirectiveMetadata, given the converted content queries
directiveMetadata(d, queries) ==
  IF queries.raised THEN queries
  ELSE Return(
         [name |-> d.typeName, selector |-> d.selector, selectorAttrs |-> <<>>,
          queries |-> queries.value,
          lifecycle |-> [usesOnChanges |-> d.usesOnChanges],
          host |-> [attributes |-> d.hostAttributes,
                    listeners |-> d.hostListeners,
                    properties |-> d.hostProperties],
          inputs |-> d.inputs, outputs |-> d.outputs,
          usesInheritance |-> FALSE, exportAs |-> "null",
          providers |-> IF d.providers > 0 THEN "providers" ELSE "null",
          viewProviders |-> "null", viewQueries |-> <<>>,
          template |-> [directivesUsed |-> FALSE, pipesUsed |-> FALSE],
          styles |-> <<>>, encapsulation |-> "Emulated",
          changeDetection |-> "null", animations |-> "null"])

directiveMetadataFromGlobalMetadata(d) ==
  IF ~Truthy(d.typeName) THEN error("Cannot resolver the name")
  ELSE directiveMetadata(d, queriesFromGlobalMetadata(d.queries))

\* the R3ComponentMetadata, given the directive metadata and the converted
\* view queries
componentMetadata(c, base, viewQueries) ==
  IF base.raised THEN base
  ELSE IF viewQueries.raised THEN viewQueries
  ELSE Return(
         [base.value EXCEPT
            !.viewQueries = viewQueries.value,
            !.styles = IF c.template.present THEN c.template.styles ELSE <<>>,
            !.encapsulation =
               IF c.template.present
                  /\ c.template.encapsulation \notin {"null", "Emulated"}
                 THEN c.template.encapsulation ELSE "Emulated",
            !.viewProviders = IF c.viewProviders > 0 THEN "viewProviders" ELSE "null"])

\* the R3ComponentMetadata of compileComponentFromRender2
componentMetadataFromGlobalMetadata(c) ==
  componentMetadata(c, directiveMetadataFromGlobalMetadata(c),
                    queriesFromGlobalMetadata(c.viewQueries))

\* the partial class with the definition as a static field
ClassStmt(name, definitionField, expression) ==
  [kind |-> "ClassStmt", name |-> name,
   fields |-> <<[name |-> definitionField, modifiers |-> <<"Static">>,
                 initializer |-> expression]>>]

\* a throw out of an adapter: the output context as the statements executed
\* before the throw left it
Thrown(ctx, message) == [raised |-> TRUE, message |-> message, outputCtx |-> ctx]

\* outputCtx.statements.push(new o.ClassStmt(...)) with the compiled definition
pushClassStmt(ctx, name, definitionKind, res) ==
  [raised |-> FALSE, res |-> res,
   outputCtx |-> [ctx EXCEPT !.statements =
                    Append(@, ClassStmt(name, definitionKind, res.definitionMap))]]

\* the adapter of a directive with the class statement pushed before the
\* metadata is computed
compileDirectiveFromRender2PushFirst(ctx, d) ==
  IF ~Truthy(d.typeName) THEN Thrown(ctx, "Cannot resolver the name")
  ELSE LET pushed == [ctx EXCEPT !.statements =
                        Append(@, ClassStmt(d.typeName, "Directive", <<>>))]
           m == directiveMetadataFromGlobalMetadata(d)
       IN  IF m.raised THEN Thrown(pushed, m.message)
           ELSE pushClassStmt(ctx, d.typeName, "Directive",
                              compileDirectiveFromMetadata(m.value))

\* the directive compiled from its metadata m, or the throw m stands for
directiveFromGlobalMetadata(ctx, d, m) ==
  IF m.raised THEN Thrown(ctx, m.message)
  ELSE pushClassStmt(ctx, d.typeName, "Directive", compileDirectiveFromMetadata(m.value))

compileDirectiveFromRender2(ctx, d) ==
  IF ~Truthy(d.typeName) THEN Thrown(ctx, "Cannot resolver the name")
  ELSE directiveFromGlobalMetadata(ctx, d, directiveMetadataFromGlobalMetadata(d))

\* the component compiled from its metadata m, or the throw m stands for
componentFromGlobalMetadata(ctx, c, m) ==
  IF m.raised THEN Thrown(ctx, m.message)
  ELSE pushClassStmt(ctx, c.typeName, "Component", compileComponentFromMetadata(m.value))

compileComponentFromRender2(ctx, c) ==
  IF ~Truthy(c.typeName) THEN Thrown(ctx, "Cannot resolver the name")
  ELSE componentFromGlobalMetadata(ctx, c, componentMetadataFromGlobalMetadata(c))

(***************************************************************************)
(* Inputs.                                                                 *)
(***************************************************************************)
Min(a, b) == IF a < b THEN a ELSE b

Distinct(seq, f(_)) == \A i, j \in DOMAIN seq : i # j => f(seq[i]) # f(seq[j])

KeyOf(e) == e.key

NameOf(b) == b.name

\* host maps of parseHostBindings: every key up to MaxKeyLen over KeyAlphabet
\* alone, and every map of up to MaxHostKeys distinct keys of SampleKeys
KeyAlphabet == {"[", "]", "(", ")", "@", "a", "."}

Keys == UNION {[1..n -> KeyAlphabet] : n \in 0..MaxKeyLen}

SampleKeys ==
  { <<"[","a","]">>, <<"(","a",")">>, <<"@","a">>, <<"a">>,
    <<"[","a","]","a">>, <<"a","@","a">>, <<"[","@","a","]">>, <<"(","a",")","a">> }

Values == {"x", "y"}

HostSet ==
  {<<[key |-> k, value |-> v]>> : k \in Keys, v \in Values}
  \cup UNION {{h \in [1..n -> [key : SampleKeys, value : Values]] : Distinct(h, KeyOf)}
              : n \in 0..MaxHostKeys}

\* host property names: plain, attribute, style with unit, class, and a plain
\* property whose first five characters spell a styling prefix in upper case
PropNames ==
  { <<"i","d">>,
    <<"a","t","t","r",".","r","o","l","e">>,
    <<"s","t","y","l","e",".","w",".","p","x">>,
    <<"c","l","a","s","s",".","f">>,
    <<"S","t","y","l","e","s">> }

\* host property names built from a head and a tail of up to MaxTailLen
\* characters: dotted names with and without a styling or an attribute prefix
NameAlphabet == {".", "w", "p"}

NameTails == UNION {[1..n -> NameAlphabet] : n \in 0..MaxTailLen}

NameHeads ==
  { <<>>, STYLE, CLASS, <<"S","T","Y","L","E">>, <<"a","t","t","r">>,
    <<"x","a","t","t","r">> }

BindingNames == {h \o t : h \in NameHeads, t \in NameTails} \ {<<>>}

PropertySet ==
  UNION {{b \in [1..n -> [name : PropNames, slots : 0..MaxSlots]] : Distinct(b, NameOf)}
         : n \in 0..MaxProps}

ListenerNames == <<"click", "focus", "blur", "keydown">>

ListenerSet ==
  {SubSeq(ListenerNames, 1, n) : n \in 0..Min(MaxListeners, Len(ListenerNames))}

AttributeSet ==
  {<<>>} \cup {<<[key |-> k, value |-> "v"]>> : k \in {"style", "class", "role"}}

QueryNames == <<"items", "item", "first", "last">>

QuerySet ==
  UNION {{[i \in 1..n |->
             [propertyName |-> QueryNames[i], first |-> f[i], predicate |-> "pred",
              descendants |-> TRUE, read |-> "null"]] : f \in [1..n -> BOOLEAN]}
         : n \in 0..Min(MaxQueries, Len(QueryNames))}

StyleTexts == <<"s1", "s2", "s3", "s4">>

StyleSet ==
  {[i \in 1..n |-> [text |-> StyleTexts[i], shimmed |-> FALSE]]
     : n \in 0..Min(MaxStyles, Len(StyleTexts))}

IOSet == {<<>>, <<[key |-> "foo", value |-> "foo"]>>}

DefaultMeta ==
  [name |-> "T", selector |-> <<"d">>, selectorAttrs |-> <<>>,
   queries |-> <<>>, lifecycle |-> [usesOnChanges |-> FALSE],
   host |-> [attributes |-> <<>>, listeners |-> <<>>, properties |-> <<>>],
   inputs |-> <<>>, outputs |-> <<>>, usesInheritance |-> FALSE, exportAs |-> "null",
   providers |-> "null", viewProviders |-> "null", viewQueries |-> <<>>,
   template |-> [directivesUsed |-> FALSE, pipesUsed |-> FALSE],
   styles |-> <<>>, encapsulation |-> "Emulated", changeDetection |-> "null",
   animations |-> "null"]

\* metadata that varies the host element and leaves the rest at its default:
\* every attribute and listener with at most one property binding, and every
\* list of property bindings on a bare host and on one with a style attribute
\* and a listener
HostMetas ==
  {[DefaultMeta EXCEPT !.host = [attributes |-> a, listeners |-> l, properties |-> p]]
     : a \in AttributeSet, l \in ListenerSet, p \in {q \in PropertySet : Len(q) <= 1}}
  \cup {[DefaultMeta EXCEPT !.host = [attributes |-> al[1], listeners |-> al[2],
                                      properties |-> p]]
          : al \in {<<<<>>, <<>>>>,
                    <<<<[key |-> "style", value |-> "v"]>>, SubSeq(ListenerNames, 1, 1)>>},
            p \in PropertySet}

\* metadata that varies the fields shared by directives and components
DirectiveFieldMetas ==
  {[DefaultMeta EXCEPT !.inputs = i, !.outputs = o, !.usesInheritance = f[1],
                       !.lifecycle = [usesOnChanges |-> f[2]],
                       !.providers = IF f[3] THEN "providers" ELSE "null"]
     : i \in IOSet, o \in IOSet, f \in [1..3 -> BOOLEAN]}

\* metadata with one host property binding of any name of BindingNames
NameMetas ==
  {[DefaultMeta EXCEPT !.host.properties = <<[name |-> n, slots |-> 0]>>]
     : n \in BindingNames}

\* selectors of up to MaxSelectorLen characters, newlines among them
SelectorSet == UNION {[1..n -> {"d", "\n"}] : n \in 1..MaxSelectorLen}

\* metadata that varies the selector
SelectorMetas == {[DefaultMeta EXCEPT !.selector = s] : s \in SelectorSet}

DirectiveMetas ==
  HostMetas \cup DirectiveFieldMetas \cup NameMetas \cup SelectorMetas
  \cup {[DefaultMeta EXCEPT !.queries = q] : q \in QuerySet}

\* component metadata that switches each optional field of the definition on
\* and off
FieldMetas ==
  {[DefaultMeta EXCEPT
      !.queries = IF f[1] THEN <<[propertyName |-> QueryNames[1], first |-> FALSE,
                                  predicate |-> "pred", descendants |-> TRUE,
                                  read |-> "null"]>>
                  ELSE <<>>,
      !.host.listeners = IF f[2] THEN SubSeq(ListenerNames, 1, 1) ELSE <<>>,
      !.inputs = IF f[3] THEN <<[key |-> "foo", value |-> "foo"]>> ELSE <<>>,
      !.outputs = IF f[4] THEN <<[key |-> "foo", value |-> "foo"]>> ELSE <<>>,
      !.template = [directivesUsed |-> f[5], pipesUsed |-> f[6]],
      !.styles = IF f[7] THEN <<[text |-> StyleTexts[1], shimmed |-> FALSE]>> ELSE <<>>,
      !.lifecycle = [usesOnChanges |-> f[8]],
      !.encapsulation = e, !.changeDetection = cd]
     : f \in [1..8 -> BOOLEAN], e \in {"Emulated", "None"},
       cd \in {"null", "Default", "OnPush"}}

\* component metadata: the component-only fields on top of the directive fields
ComponentMetas ==
  HostMetas \cup SelectorMetas \cup FieldMetas
  \cup {[DefaultMeta EXCEPT !.queries = q, !.viewQueries = v]
          : q \in QuerySet, v \in QuerySet}
  \cup {[m EXCEPT !.viewProviders = vp, !.styles = st, !.encapsulation = e]
          : m \in DirectiveFieldMetas, vp \in {"null", "viewProviders"},
            st \in StyleSet, e \in {"null", "Emulated", "Native", "None", "ShadowDom"}}

\* the selector tokens of a legacy query: a string value, a type reference,
\* both or neither
Tokens == [value : {"null", "", "a"}, identifier : {"null", "Ref"}]

SelectorLists == UNION {[1..n -> Tokens] : n \in 0..MaxSelectors}

LegacyQuery(name, selectors) ==
  [propertyName |-> name, first |-> FALSE, descendants |-> TRUE, read |-> "null",
   selectors |-> selectors]

\* a list of strings, a type, and a token with neither a string nor a type
SampleSelectors ==
  { <<[value |-> "a", identifier |-> "null"]>>,
    <<[value |-> "null", identifier |-> "Ref"]>>,
    <<[value |-> "null", identifier |-> "null"]>> }

LegacyQuerySet ==
  {<<>>} \cup {<<LegacyQuery(QueryNames[1], s)>> : s \in SelectorLists}
  \cup {<<LegacyQuery(QueryNames[1], s), LegacyQuery(QueryNames[2], t)>>
          : s \in SampleSelectors, t \in SampleSelectors}

DefaultDirective ==
  [typeName |-> "T", isComponent |-> FALSE, selector |-> <<"d">>,
   queries |-> <<>>, viewQueries |-> <<>>, usesOnChanges |-> FALSE,
   hostAttributes |-> <<>>, hostListeners |-> <<>>, hostProperties |-> <<>>,
   inputs |-> <<>>, outputs |-> <<>>, providers |-> 0, viewProviders |-> 0,
   template |-> [present |-> FALSE, styles |-> <<>>, encapsulation |-> "null"]]

\* legacy directives: the type name resolved or not, and the content queries
LegacyDirectives ==
  {[DefaultDirective EXCEPT !.typeName = n, !.queries = q]
     : n \in {"T", "null"}, q \in LegacyQuerySet}

\* legacy components: the type name, a sample of content queries, the view
\* queries and the template summary
LegacyComponents ==
  {[DefaultDirective EXCEPT !.isComponent = TRUE, !.typeName = n, !.viewQueries = v]
     : n \in {"T", "null"}, v \in LegacyQuerySet}
  \cup
  {[DefaultDirective EXCEPT !.isComponent = TRUE,
                            !.queries = IF s = <<>> THEN <<>>
                                        ELSE <<LegacyQuery(QueryNames[2], s)>>,
                            !.viewQueries = v, !.template = t]
     : s \in SampleSelectors \cup {<<>>},
       v \in {<<>>} \cup {<<LegacyQuery(QueryNames[1], q)>> : q \in SampleSelectors},
       t \in {[present |-> FALSE, styles |-> <<>>, encapsulation |-> "null"],
              [present |-> TRUE,
               styles |-> <<[text |-> StyleTexts[1], shimmed |-> FALSE]>>,
               encapsulation |-> "null"]}}

\* the statements already in the output context
StatementLists == {<<>>, <<[kind |-> "statement"]>>}

(***************************************************************************)
(* The state machine: one call of an entry point on one input.             *)
(***************************************************************************)
Init ==
  /\ runs = 0
  /\ parsed = EmptyParsed
  /\ prevParsed = EmptyParsed
  /\ def = <<>>
  /\ type = Null
  /\ raised = ""
  /\ \/ /\ \/ call = "parse" /\ host \in HostSet /\ meta = DefaultMeta
           \/ call = "directive" /\ host = <<>> /\ meta \in DirectiveMetas
           \/ call = "component" /\ host = <<>> /\ meta \in ComponentMetas
        /\ outputCtx = [statements |-> <<>>]
        /\ directive = DefaultDirective
     \/ /\ \/ call = "directiveRender2" /\ directive \in LegacyDirectives
           \/ call = "componentRender2" /\ directive \in LegacyComponents
        /\ outputCtx \in [statements : StatementLists]
        /\ host = <<>>
        /\ meta = DefaultMeta
  /\ metaIn = meta

\* parseHostBindings(host); the caller may parse the same map again
ParseHostBindings ==
  /\ call = "parse"
  /\ runs < MaxRuns
  /\ runs' = runs + 1
  /\ prevParsed' = parsed
  /\ parsed' = parseHostBindings(host)
  /\ UNCHANGED <<call, host, meta, metaIn, def, type, outputCtx, directive, raised>>

CompileDirectiveFromMetadata ==
  /\ call = "directive"
  /\ runs = 0
  /\ runs' = 1
  /\ \E r \in {compileDirectiveFromMetadata(meta)} :
       def' = r.definitionMap /\ type' = r.type /\ meta' = r.meta
  /\ UNCHANGED <<call, host, parsed, prevParsed, metaIn, outputCtx, directive, raised>>

CompileComponentFromMetadata ==
  /\ call = "component"
  /\ runs = 0
  /\ runs' = 1
  /\ \E r \in {compileComponentFromMetadata(meta)} :
       def' = r.definitionMap /\ type' = r.type /\ meta' = r.meta
  /\ UNCHANGED <<call, host, parsed, prevParsed, metaIn, outputCtx, directive, raised>>

\* compileDirectiveFromRender2(outputCtx, directive, ...); a call that throws
\* leaves everything as the statements executed before the throw left it
CompileDirectiveFromRender2 ==
  /\ call = "directiveRender2"
  /\ runs < MaxRuns
  /\ runs' = runs + 1
  /\ \E r \in {compileDirectiveFromRender2(outputCtx, directive)} :
         /\ outputCtx' = r.outputCtx
         /\ IF r.raised
              THEN raised' = r.message /\ UNCHANGED <<def, type, meta>>
              ELSE /\ raised' = ""
                   /\ def' = r.res.definitionMap
                   /\ type' = r.res.type
                   /\ meta' = r.res.meta
  /\ UNCHANGED <<call, host, parsed, prevParsed, metaIn, directive>>

CompileComponentFromRender2 ==
  /\ call = "componentRender2"
  /\ runs < MaxRuns
  /\ runs' = runs + 1
  /\ \E r \in {compileComponentFromRender2(outputCtx, directive)} :
         /\ outputCtx' = r.outputCtx
         /\ IF r.raised
              THEN raised' = r.message /\ UNCHANGED <<def, type, meta>>
              ELSE /\ raised' = ""
                   /\ def' = r.res.definitionMap
                   /\ type' = r.res.type
                   /\ meta' = r.res.meta
  /\ UNCHANGED <<call, host, parsed, prevParsed, metaIn, directive>>

Next ==
  \/ ParseHostBindings
  \/ CompileDirectiveFromMetadata
  \/ CompileComponentFromMetadata
  \/ CompileDirectiveFromRender2
  \/ CompileComponentFromRender2

Spec == Init /\ [][Next]_vars

(***************************************************************************)
(* Properties.                                                             *)
(***************************************************************************)
Compiled == runs = 1 /\ call \in {"directive", "component"}

Parsed == call = "parse" /\ runs >= 1

\* the statements of the block of fn gated by flag, <<>> when it has none
Block(fn, flag) ==
  IF \E i \in DOMAIN fn.statements : fn.statements[i].flag = flag
    THEN fn.statements[CHOOSE i \in DOMAIN fn.statements :
                         fn.statements[i].flag = flag].stmts
    ELSE <<>>

\* the create block of the emitted hostBindings function, <<>> when omitted
HostCreate == IF Has(def, "hostBindings") THEN Block(Get(def, "hostBindings"), "Create")
              ELSE <<>>

HostUpdate == IF Has(def, "hostBindings") THEN Block(Get(def, "hostBindings"), "Update")
              ELSE <<>>

AllocIndexes == {i \in DOMAIN HostCreate : HostCreate[i].instr = "allocHostVars"}

NonStyling(m) ==
  {i \in DOMAIN m.host.properties : ~IsStyling(m.host.properties[i].name)}

Styling(m) ==
  {i \in DOMAIN m.host.properties : IsStyling(m.host.properties[i].name)}

RECURSIVE SumSlots(_, _)
SumSlots(props, i) ==
  IF i > Len(props) THEN 0 ELSE props[i].slots + SumSlots(props, i + 1)

HasStaticStyling(m) ==
  \E i \in DOMAIN m.host.attributes : m.host.attributes[i].key \in {"style", "class"}

\* C1: metadata with no content queries, no view queries, no host listeners, no
\* host property bindings and no static or dynamic styling compiles to a
\* definition without hostBindings, contentQueries, contentQueriesRefresh and
\* viewQuery.
NothingDeclared(m) ==
  /\ Len(m.queries) = 0
  /\ Len(m.viewQueries) = 0
  /\ Len(m.host.listeners) = 0
  /\ Len(m.host.properties) = 0
  /\ ~HasStaticStyling(m)

C1_QueryAndHostFieldsOmitted ==
  (Compiled /\ NothingDeclared(metaIn)) =>
     /\ ~Has(def, "hostBindings")
     /\ ~Has(def, "contentQueries")
     /\ ~Has(def, "contentQueriesRefresh")
     /\ ~Has(def, "viewQuery")

C1_Witness ==
  /\ Compiled /\ call = "component" /\ NothingDeclared(metaIn)
  /\ Len(metaIn.host.attributes) > 0
  /\ Has(def, "attributes") /\ Has(def, "template") /\ ~Has(def, "hostBindings")

(***************************************************************************)
(* parseHostBindings.                                                      *)
(***************************************************************************)
Buckets == {"attributes", "listeners", "properties", "animations"}

NamesIn(mapping) == {mapping[i].key : i \in DOMAIN mapping}

EntriesIn(mapping) == {<<mapping[i].key, mapping[i].value>> : i \in DOMAIN mapping}

\* key is exactly open name close, for a non-empty name the pattern's character
\* class admits (any character but the closing one)
Wrapped(key, open, close) ==
  /\ Len(key) >= 3 /\ key[1] = open /\ key[Len(key)] = close
  /\ \A i \in 2..(Len(key) - 1) : key[i] # close

Inner(key) == SubSeq(key, 2, Len(key) - 1)

Trigger(key) ==
  /\ Len(key) >= 2 /\ key[1] = "@"
  /\ \A i \in 2..Len(key) : IsWordOrDash(key[i])

\* C2: parseHostBindings classifies every key by its whole form: exactly
\* '[name]' goes to properties under name, exactly '(name)' to listeners under
\* name, exactly '@name' to animations, and a key of any other shape, extra
\* characters before or after one of the forms included, goes to attributes
\* under the unchanged key.
C2_WholeKeyClassification ==
  Parsed =>
    \A i \in DOMAIN host :
      LET key == host[i].key
      IN  IF Wrapped(key, "[", "]") THEN Inner(key) \in NamesIn(parsed.properties)
          ELSE IF Wrapped(key, "(", ")") THEN Inner(key) \in NamesIn(parsed.listeners)
          ELSE IF Trigger(key) THEN parsed.animations # <<>>
          ELSE key \in NamesIn(parsed.attributes)

\* the mappings one key alone is written to
WrittenTo(entry) == {b \in Buckets : parseHostBindings(<<entry>>)[b] # <<>>}

\* C3 as stated: the four output mappings are pairwise disjoint (no entry of
\* one mapping is an entry of another).
C3_OutputMappingsDisjoint ==
  Parsed =>
    \A a, b \in Buckets :
      a # b => EntriesIn(parsed[a]) \cap EntriesIn(parsed[b]) = {}

\* C3 amended: parseHostBindings returns for every map; a second run on the same
\* map returns the same four mappings; every input key is written to exactly
\* one of the four mappings, so the input keys are partitioned by the mapping
\* they are routed to, and each mapping holds exactly the names of the keys
\* routed to it (two mappings may hold the same name).
C3_EachKeyWrittenToOneMapping ==
  Parsed =>
    /\ runs >= 2 => parsed = prevParsed
    /\ \A i \in DOMAIN host : Cardinality(WrittenTo(host[i])) = 1
    /\ \A b \in Buckets :
         NamesIn(parsed[b]) =
           UNION {NamesIn(parseHostBindings(<<host[i]>>)[b]) : i \in DOMAIN host}
    /\ \A b \in Buckets : \A j \in DOMAIN parsed[b] :
         \E i \in DOMAIN host : parsed[b][j].value = host[i].value

C3_Witness ==
  /\ Parsed /\ runs = 2 /\ Len(host) = 2
  /\ NamesIn(parsed.properties) \cap NamesIn(parsed.listeners) # {}
  /\ parsed = prevParsed

(***************************************************************************)
(* Host-variable slots.                                                    *)
(***************************************************************************)
\* the host properties are N non-styling bindings followed by M styling bindings
NonStylingThenStyling(m) ==
  \A i \in NonStyling(m) : \A j \in Styling(m) : i < j

\* every host binding expression is plain: its value conversion reserves no slot
PlainExpressions(m) == SumSlots(m.host.properties, 1) = 0

\* C4 as stated, read for plain binding expressions: for N non-styling host
\* property bindings followed by M styling bindings, the count passed to the
\* slot-allocation instruction is N+M.
C4_TotalIsNPlusM ==
  (Compiled /\ NonStylingThenStyling(metaIn) /\ PlainExpressions(metaIn)) =>
     \A i \in AllocIndexes :
        HostCreate[i].count = Cardinality(NonStyling(metaIn)) + Cardinality(Styling(metaIn))

\* the total createHostBindingsFunction ends with: one slot per non-styling
\* binding, plus the slots the value conversions of the binding expressions
\* reserve
ExpectedTotal(m) == Cardinality(NonStyling(m)) + SumSlots(m.host.properties, 1)

\* C4 amended: the count passed to the slot-allocation instruction is N plus the
\* number of slots the value conversions of the host binding expressions
\* reserve (none for a plain expression); a styling binding adds no slot of its
\* own, so M plain styling bindings leave the count at N.
C4_TotalIsNonStylingPlusReserved ==
  Compiled =>
     /\ \A i \in AllocIndexes : HostCreate[i].count = ExpectedTotal(metaIn)
     /\ ExpectedTotal(metaIn) # 0 => AllocIndexes # {}

C4_Witness ==
  /\ Compiled /\ NonStylingThenStyling(metaIn)
  /\ Cardinality(NonStyling(metaIn)) = 1 /\ Cardinality(Styling(metaIn)) = 1
  /\ PlainExpressions(metaIn)
  /\ AllocIndexes = {1} /\ HostCreate[1].count = 1

\* C5: the slot-allocation instruction is emitted exactly when the final total
\* is nonzero; it carries that total and is the first statement of the create
\* block, before every listener statement and before the styling create
\* instruction.
C5_AllocationFirstIffNonzero ==
  Compiled =>
     /\ (AllocIndexes # {}) <=> (ExpectedTotal(metaIn) # 0)
     /\ AllocIndexes \subseteq {1}
     /\ \A i \in AllocIndexes :
          /\ HostCreate[i].count = ExpectedTotal(metaIn)
          /\ \A j \in DOMAIN HostCreate :
               HostCreate[j].instr \in {"listener", "elementStyling"} => i < j

C5_Witness ==
  /\ Compiled
  /\ Len(HostCreate) = 3
  /\ HostCreate[1].instr = "allocHostVars" /\ HostCreate[1].count = 2
  /\ HostCreate[2].instr = "listener"
  /\ HostCreate[3].instr = "elementStyling"

(***************************************************************************)
(* Encapsulation, metadata, features, inputs and outputs.                  *)
(***************************************************************************)
EmulatedNoStyles == metaIn.encapsulation = "Emulated" /\ Len(metaIn.styles) = 0

\* the styles and encapsulation fields of a definition map, in order
StyleFields(map) == SelectSeq(map, LAMBDA e : e.key \in {"styles", "encapsulation"})

NoneTwin == compileComponentFromMetadata([metaIn EXCEPT !.encapsulation = "None"])

\* C6 as stated: a component with encapsulation Emulated and no styles compiles
\* to a definition without the encapsulation field, the same (in styles and
\* encapsulation) as for encapsulation None and no styles.
C6_EmulatedNoStylesOmitsEncapsulation ==
  (Compiled /\ call = "component" /\ EmulatedNoStyles) =>
     /\ ~Has(def, "encapsulation")
     /\ StyleFields(def) = StyleFields(NoneTwin.definitionMap)

\* C6 amended: a component with encapsulation Emulated and no styles compiles
\* to a definition whose encapsulation field is present with the value None
\* and whose styles field is omitted, the same (in styles and encapsulation)
\* as for encapsulation None and no styles.
C6_EmulatedNoStylesEmitsNone ==
  (Compiled /\ call = "component" /\ EmulatedNoStyles) =>
     /\ Has(def, "encapsulation")
     /\ Get(def, "encapsulation") = [kind |-> "literal", text |-> "None"]
     /\ ~Has(def, "styles")
     /\ StyleFields(def) = StyleFields(NoneTwin.definitionMap)

C6_Witness ==
  /\ Compiled /\ call = "component" /\ EmulatedNoStyles
  /\ metaIn.viewProviders # "null"
  /\ StyleFields(def) =
       <<[key |-> "encapsulation", value |-> [kind |-> "literal", text |-> "None"]]>>

\* C7: compileDirectiveFromMetadata and compileComponentFromMetadata leave the
\* input metadata unchanged: every field, encapsulation included, has after the
\* call the value it had before.
C7_MetadataUnchanged == Compiled => meta = metaIn

FeatureNames ==
  IF Has(def, "features")
    THEN [i \in DOMAIN Get(def, "features").entries |->
            Get(def, "features").entries[i].feature]
    ELSE <<>>

FeatureOrder == <<"ProvidersFeature", "InheritDefinitionFeature", "NgOnChangesFeature">>

Applies(m, f) ==
  IF f = "ProvidersFeature" THEN m.providers # "null" \/ m.viewProviders # "null"
  ELSE IF f = "InheritDefinitionFeature" THEN m.usesInheritance
  ELSE m.lifecycle.usesOnChanges

\* C8: the features list holds, in the fixed order providers, inheritance,
\* on-changes, exactly the entries that apply; the features field is present
\* exactly when at least one applies.
C8_FeaturesInFixedOrder ==
  Compiled =>
     /\ FeatureNames = SelectSeq(FeatureOrder, LAMBDA f : Applies(metaIn, f))
     /\ Has(def, "features") <=> \E i \in DOMAIN FeatureOrder : Applies(metaIn, FeatureOrder[i])

C8_Witness ==
  /\ Compiled /\ metaIn.usesInheritance /\ metaIn.lifecycle.usesOnChanges
  /\ FeatureNames = <<"InheritDefinitionFeature", "NgOnChangesFeature">>

ProvidersCalls ==
  IF Has(def, "features")
    THEN SelectSeq(Get(def, "features").entries, LAMBDA e : e.feature = "ProvidersFeature")
    ELSE <<>>

\* C9 as stated: the providers feature call is emitted iff providers or
\* viewProviders is present, and viewProviders is attached to it only when
\* providers is attached too, then as the second argument after providers.
C9_ViewProvidersOnlyWithProviders ==
  Compiled =>
     /\ (Len(ProvidersCalls) = 1) <=> (metaIn.providers # "null" \/ metaIn.viewProviders # "null")
     /\ \A i \in DOMAIN ProvidersCalls :
          (\E j \in DOMAIN ProvidersCalls[i].args : ProvidersCalls[i].args[j] = "viewProviders")
             => ProvidersCalls[i].args = <<"providers", "viewProviders">>

\* C9 amended: the providers feature call is emitted iff providers or
\* viewProviders is present; its first argument is providers when present and
\* an empty array literal otherwise; viewProviders is attached whenever it is
\* present, always as the second argument.
C9_ViewProvidersSecondAfterPlaceholder ==
  Compiled =>
     /\ Len(ProvidersCalls) <= 1
     /\ (Len(ProvidersCalls) = 1) <=> (metaIn.providers # "null" \/ metaIn.viewProviders # "null")
     /\ \A i \in DOMAIN ProvidersCalls :
          ProvidersCalls[i].args =
            <<IF metaIn.providers # "null" THEN metaIn.providers ELSE "[]">>
            \o (IF metaIn.viewProviders # "null" THEN <<metaIn.viewProviders>> ELSE <<>>)

C9_Witness ==
  /\ Compiled /\ metaIn.providers = "null" /\ metaIn.viewProviders # "null"
  /\ Len(ProvidersCalls) = 1
  /\ ProvidersCalls[1].args = <<"[]", "viewProviders">>

\* C10: the outputs field is present exactly when the outputs map is non-empty;
\* the inputs field is present with the same entries whenever the inputs map is
\* non-empty; {inputs: {foo: 'foo'}, outputs: {}} gives inputs {foo: 'foo'} and
\* no outputs field.
C10_InputsAndOutputsWhenNonEmpty ==
  Compiled =>
     /\ Has(def, "outputs") <=> Len(metaIn.outputs) > 0
     /\ Has(def, "outputs") => Get(def, "outputs").entries = metaIn.outputs
     /\ Len(metaIn.inputs) > 0 =>
          Has(def, "inputs") /\ Get(def, "inputs").entries = metaIn.inputs

C10_Witness ==
  /\ Compiled
  /\ metaIn.inputs = <<[key |-> "foo", value |-> "foo"]>> /\ metaIn.outputs = <<>>
  /\ Has(def, "inputs") /\ Get(def, "inputs").entries = <<[key |-> "foo", value |-> "foo"]>>
  /\ ~Has(def, "outputs")

(***************************************************************************)
(* C11: the content queries refresh function.                              *)
(***************************************************************************)
RefreshStatements == Get(def, "contentQueriesRefresh").statements

\* the positions of the refresh statements, in emission order
RefreshIndexes ==
  {i \in DOMAIN RefreshStatements : RefreshStatements[i].instr = "queryRefresh"}

\* the k-th refresh statement, k counted from 1
NthRefresh(k) ==
  RefreshStatements[CHOOSE i \in RefreshIndexes :
                      Cardinality({j \in RefreshIndexes : j <= i}) = k]

\* C11: the refresh function holds one refresh statement per content query,
\* all after the instance load and in declaration order; the statement of the
\* query at position idx loads the list at queryStartIndex + idx and assigns
\* the property propertyName, from .first when first is set and from the whole
\* list otherwise
C11_OneRefreshPerContentQuery ==
  (Compiled /\ Len(metaIn.queries) > 0) =>
    /\ Has(def, "contentQueriesRefresh")
    /\ RefreshStatements[1].instr = "declareInstance"
    /\ Cardinality(RefreshIndexes) = Len(metaIn.queries)
    /\ \A k \in 1..Len(metaIn.queries) :
         /\ NthRefresh(k).loadOffset = k - 1
         /\ NthRefresh(k).property = metaIn.queries[k].propertyName
         /\ NthRefresh(k).first = metaIn.queries[k].first

\* two content queries, the first a list and the second a single element
C11_Witness ==
  /\ Compiled
  /\ Len(metaIn.queries) = 2
  /\ ~metaIn.queries[1].first /\ metaIn.queries[2].first
  /\ Cardinality(RefreshIndexes) = 2
  /\ NthRefresh(2).loadOffset = 1

(***************************************************************************)
(* C12: the property and the unit of a styling binding name.               *)
(***************************************************************************)
\* the positions of the dots of name
Dots(name) == {i \in DOMAIN name : name[i] = "."}

FirstDot(name) == CHOOSE i \in Dots(name) : \A j \in Dots(name) : i <= j

LastDot(name) == CHOOSE i \in Dots(name) : \A j \in Dots(name) : j <= i

\* name is "style" or "class" followed by n dot-separated segments
StylingSegments(name, n) ==
  /\ Len(name) >= 5
  /\ SubSeq(name, 1, 5) \in {STYLE, CLASS}
  /\ Cardinality(Dots(name)) = n
  /\ n > 0 => FirstDot(name) = 6

\* the update statement of the host property binding declared at position i
StatementOf(i) == HostUpdate[CHOOSE k \in DOMAIN HostUpdate : HostUpdate[k].declared = i]

\* C12: a styling binding named style.P.U is emitted with property P and unit
\* U, one named style.P or class.P with property P and an empty unit, and one
\* whose name has no dot with an empty property and an empty unit
C12_StylingNameParsed ==
  Compiled =>
    \A i \in DOMAIN metaIn.host.properties :
      LET name == metaIn.host.properties[i].name
      IN  /\ (StylingSegments(name, 2) /\ SubSeq(name, 1, 5) = STYLE) =>
               /\ StatementOf(i).bindingName =
                    SubSeq(name, FirstDot(name) + 1, LastDot(name) - 1)
               /\ StatementOf(i).unit = SubSeq(name, LastDot(name) + 1, Len(name))
          /\ StylingSegments(name, 1) =>
               /\ StatementOf(i).bindingName = SubSeq(name, 7, Len(name))
               /\ StatementOf(i).unit = <<>>
          /\ (IsStyling(name) /\ Dots(name) = {}) =>
               /\ StatementOf(i).bindingName = <<>>
               /\ StatementOf(i).unit = <<>>

\* style.w.p compiled to a style instruction for property w with unit p
C12_Witness ==
  /\ Compiled
  /\ Len(metaIn.host.properties) = 1
  /\ metaIn.host.properties[1].name = <<"s","t","y","l","e",".","w",".","p">>
  /\ StatementOf(1).instr = "elementStyleProp"
  /\ StatementOf(1).bindingName = <<"w">>
  /\ StatementOf(1).unit = <<"p">>

(***************************************************************************)
(* C13: the selector of the type and the selector of the definition.       *)
(***************************************************************************)
RECURSIVE WithoutNewlines(_)
WithoutNewlines(str) ==
  IF str = <<>> THEN <<>>
  ELSE IF Head(str) = "\n" THEN WithoutNewlines(Tail(str))
  ELSE <<Head(str)>> \o WithoutNewlines(Tail(str))

HasNewline(str) == \E i \in DOMAIN str : str[i] = "\n"

\* C13: the selector of the type is the selector of the metadata without its
\* newline characters, the same string when it has none, and the selectors
\* field of the definition is built from the selector as given
C13_TypeSelectorWithoutNewlines ==
  Compiled =>
    /\ type.selector = WithoutNewlines(metaIn.selector)
    /\ ~HasNewline(type.selector)
    /\ ~HasNewline(metaIn.selector) => type.selector = metaIn.selector
    /\ Get(def, "selectors").selector = metaIn.selector

\* a selector with two newlines: none in the type, both in the selectors field
C13_Witness ==
  /\ Compiled
  /\ metaIn.selector = <<"\n", "d", "\n">>
  /\ type.selector = <<"d">>
  /\ Get(def, "selectors").selector = <<"\n", "d", "\n">>

(***************************************************************************)
(* C14: the order of the fields of a component definition.                 *)
(***************************************************************************)
PositionIn(order, key) == CHOOSE i \in DOMAIN order : order[i] = key

\* the fields of the definition that order names appear in the order it gives
FieldsFollow(order) ==
  \A i, j \in DOMAIN def :
    (/\ i < j
     /\ \E a \in DOMAIN order : order[a] = def[i].key
     /\ \E b \in DOMAIN order : order[b] = def[j].key)
      => PositionIn(order, def[i].key) < PositionIn(order, def[j].key)

\* C14 as stated: the fields of a component definition that are present appear
\* in the order type, selectors, factory, contentQueries, hostBindings, inputs,
\* outputs, template, directives, pipes, styles, encapsulation,
\* changeDetection, features
C14_FeaturesAfterChangeDetection ==
  (Compiled /\ call = "component") =>
    FieldsFollow(<<"type", "selectors", "factory", "contentQueries", "hostBindings",
                   "inputs", "outputs", "template", "directives", "pipes", "styles",
                   "encapsulation", "changeDetection", "features">>)

\* C14 amended: the fields of a component definition that are present appear
\* in the order type, selectors, factory, contentQueries, hostBindings, inputs,
\* outputs, features, template, directives, pipes, styles, encapsulation,
\* changeDetection; features comes right after the shared directive fields
C14_FeaturesBeforeTemplate ==
  (Compiled /\ call = "component") =>
    FieldsFollow(<<"type", "selectors", "factory", "contentQueries", "hostBindings",
                   "inputs", "outputs", "features", "template", "directives", "pipes",
                   "styles", "encapsulation", "changeDetection">>)

\* a component definition with every one of the fourteen fields
C14_Witness ==
  /\ Compiled /\ call = "component"
  /\ \A k \in {"type", "selectors", "factory", "contentQueries", "hostBindings",
                "inputs", "outputs", "features", "template", "directives", "pipes",
                "styles", "encapsulation", "changeDetection"} : Has(def, k)

(***************************************************************************)
(* C15: the class statement of the legacy adapter.                         *)
(***************************************************************************)
LegacyCall == call \in {"directiveRender2", "componentRender2"}

\* selector tokens that make up a string list or a single type
StringSelectors(selectors) ==
  /\ Len(selectors) >= 1
  /\ \A i \in DOMAIN selectors : selectors[i].value \notin {"null", ""}

TypeSelector(selectors) ==
  /\ Len(selectors) = 1
  /\ selectors[1].value \in {"null", ""}
  /\ selectors[1].identifier # "null"

WellFormed(queries) ==
  \A i \in DOMAIN queries :
    StringSelectors(queries[i].selectors) \/ TypeSelector(queries[i].selectors)

\* a compilation step of the call on d fails
StepFails(d) ==
  \/ d.typeName = "null"
  \/ ~WellFormed(d.queries)
  \/ d.isComponent /\ ~WellFormed(d.viewQueries)

\* C15: a call of the legacy adapter that succeeds appends one class
\* statement, with the compiled definition as its static field, to the output
\* statements; a call whose type name is not resolved or whose compilation
\* fails raises and leaves the output statements as they were
C15_OneClassStatementOrNone ==
  [][(LegacyCall /\ runs' = runs + 1) =>
       IF StepFails(directive)
         THEN raised' # "" /\ outputCtx' = outputCtx
         ELSE /\ raised' = ""
              /\ Len(outputCtx'.statements) = Len(outputCtx.statements) + 1
              /\ SubSeq(outputCtx'.statements, 1, Len(outputCtx.statements))
                   = outputCtx.statements
              /\ LET stmt == outputCtx'.statements[Len(outputCtx'.statements)]
                 IN  /\ stmt.kind = "ClassStmt"
                     /\ stmt.name = directive.typeName
                     /\ Len(stmt.fields) = 1
                     /\ stmt.fields[1].modifiers = <<"Static">>
                     /\ stmt.fields[1].initializer = def']_vars

\* a call that raised on a malformed query after an earlier statement: the
\* output statements hold no class statement
C15_Witness ==
  /\ LegacyCall /\ runs >= 1
  /\ raised = "Unexpected query form"
  /\ directive.typeName = "T"
  /\ Len(outputCtx.statements) = 1
  /\ outputCtx.statements[1].kind = "statement"

(***************************************************************************)
(* C20: the predicate of a legacy query.                                   *)
(***************************************************************************)
\* the predicate the claim gives to a well-formed selector list
PredicateOf(selectors) ==
  IF StringSelectors(selectors)
    THEN [kind |-> "constLiteral",
          strings |-> [i \in DOMAIN selectors |-> selectors[i].value]]
    ELSE [kind |-> "importExpr", reference |-> selectors[1].identifier]

\* the predicates of the content queries and of the view queries emitted
ContentPredicates ==
  IF Has(def, "contentQueries")
    THEN [i \in DOMAIN Get(def, "contentQueries").statements |->
            Get(def, "contentQueries").statements[i].query.predicate]
    ELSE <<>>

ViewPredicates ==
  IF Has(def, "viewQuery")
    THEN [i \in DOMAIN Block(Get(def, "viewQuery"), "Create") |->
            Block(Get(def, "viewQuery"), "Create")[i].predicate]
    ELSE <<>>

\* the queries the call resolves: the view queries only for a component
ResolvedViewQueries == IF directive.isComponent THEN directive.viewQueries ELSE <<>>

\* C20: in the legacy adapter a selector list of one or more non-empty strings
\* yields the pooled array of these strings and a list of one selector with a
\* type reference and no string yields the type expression; any other list
\* (empty, one selector with neither, several selectors one of which is not a
\* string) raises an error and no predicate is returned
C20_PredicateOrError ==
  (LegacyCall /\ runs >= 1 /\ directive.typeName # "null") =>
    IF WellFormed(directive.queries) /\ WellFormed(ResolvedViewQueries)
      THEN /\ raised = ""
           /\ ContentPredicates =
                [i \in DOMAIN directive.queries |-> PredicateOf(directive.queries[i].selectors)]
           /\ ViewPredicates =
                [i \in DOMAIN ResolvedViewQueries |->
                   PredicateOf(ResolvedViewQueries[i].selectors)]
      ELSE /\ raised \in {"Unexpected query form",
                          "Found a type among the string selectors expected"}
           /\ def = <<>>

\* a list of two selectors, a string and a type: the call raised
C20_Witness ==
  /\ LegacyCall /\ runs >= 1 /\ directive.typeName # "null"
  /\ Len(directive.queries) = 1
  /\ Len(directive.queries[1].selectors) = 2
  /\ directive.queries[1].selectors[1].value = "a"
  /\ directive.queries[1].selectors[2].value = "null"
  /\ directive.queries[1].selectors[2].identifier = "Ref"
  /\ raised = "Found a type among the string selectors expected"
  /\ def = <<>>

(***************************************************************************)
(* C16: the slot offsets of the host property bindings.                    *)
(***************************************************************************)
\* the host property bindings whose value conversion reserves slots
Reserving == {i \in DOMAIN metaIn.host.properties : metaIn.host.properties[i].slots > 0}

StylingName(name) ==
  /\ Len(name) >= 5
  /\ [i \in 1..5 |-> LowerChar(name[i])] \in {STYLE, CLASS}

\* the count of the slot allocation, 0 when there is none
AllocCount ==
  IF AllocIndexes = {} THEN 0 ELSE HostCreate[CHOOSE i \in AllocIndexes : TRUE].count

\* the update statements of the binding declared at position i
StatementsOf(i) == {k \in DOMAIN HostUpdate : HostUpdate[k].declared = i}

\* C17: the initial host variable count is the number of host property keys
\* whose first five characters, lower-cased, are neither style nor class; a
\* binding so counted is emitted as one property or attribute instruction, a
\* binding not counted as one styling instruction of the Styling Builder, and
\* no binding is emitted both ways or not at all
C17_CountedOrStyled ==
  Compiled =>
    /\ AllocCount - SumSlots(metaIn.host.properties, 1) =
         Cardinality({i \in DOMAIN metaIn.host.properties :
                        ~StylingName(metaIn.host.properties[i].name)})
    /\ \A i \in DOMAIN metaIn.host.properties :
         /\ Cardinality(StatementsOf(i)) = 1
         /\ IF StylingName(metaIn.host.properties[i].name)
              THEN StatementOf(i).instr \in {"elementStyleProp", "elementClassProp"}
              ELSE StatementOf(i).instr \in {"elementProperty", "elementAttribute"}

\* a property named Styles next to a plain one: one counted, one styled
C17_Witness ==
  /\ Compiled
  /\ Len(metaIn.host.properties) = 2
  /\ metaIn.host.properties[1].name = <<"S","t","y","l","e","s">>
  /\ ~StylingName(metaIn.host.properties[2].name)
  /\ AllocCount - SumSlots(metaIn.host.properties, 1) = 1
  /\ StatementOf(1).instr = "elementStyleProp"
  /\ StatementOf(2).instr \in {"elementProperty", "elementAttribute"}

(***************************************************************************)
(* C18: the host bindings function and its two blocks.                     *)
(***************************************************************************)
\* the statements the create list and the update list hold once listeners,
\* property bindings, styling and the slot allocation are processed
CreateListLen(m) ==
  Len(m.host.listeners)
  + (IF HasStaticStyling(m) \/ Styling(m) # {} THEN 1 ELSE 0)
  + (IF Cardinality(NonStyling(m)) + SumSlots(m.host.properties, 1) # 0 THEN 1 ELSE 0)

UpdateListLen(m) == Len(m.host.properties)

\* the flags of the blocks of the host bindings function, in order
HostFlags ==
  [i \in DOMAIN Get(def, "hostBindings").statements |->
     Get(def, "hostBindings").statements[i].flag]

\* C18: there is no host bindings function exactly when the create list and
\* the update list are both empty; otherwise the function holds a Create block
\* iff the create list is not empty and an Update block iff the update list is
\* not empty, the Create block first, each with the statements of its list
C18_NullIffBothListsEmpty ==
  Compiled =>
    IF CreateListLen(metaIn) = 0 /\ UpdateListLen(metaIn) = 0
      THEN ~Has(def, "hostBindings")
      ELSE /\ Has(def, "hostBindings")
           /\ HostFlags =
                (IF CreateListLen(metaIn) > 0 THEN <<"Create">> ELSE <<>>)
                \o (IF UpdateListLen(metaIn) > 0 THEN <<"Update">> ELSE <<>>)
           /\ Len(HostCreate) = CreateListLen(metaIn)
           /\ Len(HostUpdate) = UpdateListLen(metaIn)

\* a listener and no property binding: a function with the Create block only
C18_Witness ==
  /\ Compiled
  /\ Len(metaIn.host.listeners) > 0
  /\ Len(metaIn.host.properties) = 0
  /\ Has(def, "hostBindings")
  /\ HostFlags = <<"Create">>

(***************************************************************************)
(* C19: attribute bindings and property bindings.                          *)
(***************************************************************************)
\* name has the form attr.X with a non-empty X
AttrForm(name) == Len(name) > 5 /\ SubSeq(name, 1, 5) = ATTR

\* C19: a non-styling host property binding is emitted as an attribute binding
\* named X exactly when its name has the form attr.X, and every other name as
\* a property binding with the name unchanged and the extra arguments null
\* and true
C19_AttributeIffAttrForm ==
  Compiled =>
    \A i \in DOMAIN metaIn.host.properties :
      LET name == metaIn.host.properties[i].name
      IN  ~StylingName(name) =>
            IF AttrForm(name)
              THEN /\ StatementOf(i).instr = "elementAttribute"
                   /\ StatementOf(i).bindingName = SubSeq(name, 6, Len(name))
              ELSE /\ StatementOf(i).instr = "elementProperty"
                   /\ StatementOf(i).bindingName = name
                   /\ StatementOf(i).extraParams = <<"null", "true">>

(***************************************************************************)
(* C21: the view queries function.                                         *)
(***************************************************************************)
ViewFlags ==
  [i \in DOMAIN Get(def, "viewQuery").statements |->
     Get(def, "viewQuery").statements[i].flag]

ViewCreate == Block(Get(def, "viewQuery"), "Create")

ViewUpdate == Block(Get(def, "viewQuery"), "Update")

HasViewQueries == Compiled /\ call = "component" /\ Len(metaIn.viewQueries) > 0

\* the create block defines the view query at position i with slot index i
ViewCreateInOrder ==
  /\ Len(ViewCreate) = Len(metaIn.viewQueries)
  /\ \A i \in DOMAIN metaIn.viewQueries :
       /\ ViewCreate[i].instr = "query"
       /\ ViewCreate[i].idx = <<i - 1>>

\* the statements of the update block from position from on refresh the view
\* queries in declaration order
ViewRefreshInOrder(from) ==
  \A i \in DOMAIN metaIn.viewQueries :
    /\ from + i - 1 \in DOMAIN ViewUpdate
    /\ ViewUpdate[from + i - 1].instr = "queryRefresh"
    /\ ViewUpdate[from + i - 1].loadOffset = i - 1
    /\ ViewUpdate[from + i - 1].property = metaIn.viewQueries[i].propertyName
    /\ ViewUpdate[from + i - 1].first = metaIn.viewQueries[i].first

\* C21 as stated: the view queries function has a Create block and an Update
\* block, each with exactly one statement per view query in declaration
\* order; the query at position i is defined with slot index i and, in the
\* update block, loaded from slot i, refreshed and assigned to propertyName,
\* from .first when first is set and from the whole list otherwise
C21_OneStatementPerViewQuery ==
  HasViewQueries =>
    /\ Has(def, "viewQuery")
    /\ ViewFlags = <<"Create", "Update">>
    /\ ViewCreateInOrder
    /\ Len(ViewUpdate) = Len(metaIn.viewQueries)
    /\ ViewRefreshInOrder(1)

\* C21 amended: the create block holds exactly one statement per view query;
\* the update block holds the declaration of the temporary followed by exactly
\* one refresh statement per view query; slots, properties and .first are as
\* stated, and the Create block comes before the Update block
C21_TemporaryThenOneRefreshPerViewQuery ==
  HasViewQueries =>
    /\ Has(def, "viewQuery")
    /\ ViewFlags = <<"Create", "Update">>
    /\ ViewCreateInOrder
    /\ Len(ViewUpdate) = Len(metaIn.viewQueries) + 1
    /\ ViewUpdate[1].instr = "declareTemporary"
    /\ ViewRefreshInOrder(2)

\* two view queries, a single element then a list: three update statements,
\* the last one loading slot 1
C21_Witness ==
  /\ HasViewQueries
  /\ Len(metaIn.viewQueries) = 2
  /\ metaIn.viewQueries[1].first /\ ~metaIn.viewQueries[2].first
  /\ Len(ViewCreate) = 2 /\ ViewCreate[2].idx = <<1>>
  /\ Len(ViewUpdate) = 3 /\ ViewUpdate[3].loadOffset = 1

(***************************************************************************)
(* C22: the styles field.                                                  *)
(***************************************************************************)
\* the encapsulation of the metadata as given, a null value read as Emulated
EffectiveEncapsulation ==
  IF metaIn.encapsulation = "null" THEN "Emulated" ELSE metaIn.encapsulation

\* C22: a component definition has the styles field exactly when the style
\* list is not empty; the field has one entry per style in the order of the
\* list, each passed through the shim when the encapsulation, null read as
\* Emulated, is Emulated, and each as given for every other encapsulation
C22_StylesShimmedIffEmulated ==
  (Compiled /\ call = "component") =>
    /\ Has(def, "styles") <=> Len(metaIn.styles) > 0
    /\ Has(def, "styles") =>
         /\ Len(Get(def, "styles").entries) = Len(metaIn.styles)
         /\ \A i \in DOMAIN metaIn.styles :
              /\ Get(def, "styles").entries[i].text = metaIn.styles[i].text
              /\ Get(def, "styles").entries[i].shimmed
                   <=> EffectiveEncapsulation = "Emulated"

\* two styles under a null encapsulation: both shimmed, in the order given
C22_Witness ==
  /\ Compiled /\ call = "component"
  /\ metaIn.encapsulation = "null"
  /\ Len(metaIn.styles) = 2
  /\ Has(def, "styles")
  /\ Get(def, "styles").entries[1] = [text |-> StyleTexts[1], shimmed |-> TRUE]
  /\ Get(def, "styles").entries[2] = [text |-> StyleTexts[2], shimmed |-> TRUE]

====
